---- MODULE Spec2Model ----
(***************************************************************************)
(* A model of daily_bot.py: the text pipeline that turns a feed entry into *)
(* one Telegram message (extract_news_items, create_punchy_summary,        *)
(* format_telegram_message, escape_markdown_v2), and main, which sends it  *)
(* with send_telegram_message.                                             *)
(*                                                                         *)
(* A Python str is a sequence of characters; a character is a one-letter   *)
(* string, or a name standing for one code point ("ROBOT" is U+1F916).     *)
(* Regular expressions are modelled by what re.search / re.split / re.sub  *)
(* compute for them: leftmost match, greedy and lazy quantifiers tried in  *)
(* the order the backtracking matcher tries them.                          *)
(***************************************************************************)
EXTENDS Integers, Sequences, FiniteSets, TLC

VARIABLES
    sText,      \* create_punchy_summary: the argument text
    sMaxLen,    \* create_punchy_summary: the argument max_length
    sResult,    \* create_punchy_summary: the returned string
    sPc,        \* "call" before the call, "returned" after it
    pEntry,     \* format_telegram_message: the argument entry
    pInput,     \* format_telegram_message: news_items of the outermost call
    pItems,     \* news_items of the innermost (current) call
    pDepth,     \* number of recursive calls below the outermost one
    pMessage,   \* the message joined by the current call
    pRendered,  \* number of item blocks the current call has appended
    pPc,        \* "call", "check", "returned", "RecursionError"
    xContent,   \* extract_news_items: the argument content
    xMaxItems,  \* extract_news_items: the argument max_items
    xAll,       \* news_items after the scan, before the sort
    xResult,    \* the list extract_news_items returns
    xPc,        \* "call", "scanned", "returned"
    eText,      \* escape_markdown_v2: the argument text
    eEscaped,   \* the string escape_markdown_v2 returns
    eStripped,  \* the escaped string with its backslashes removed
    ePc,        \* "call", "escaped", "stripped"
    mEntries,   \* main: feed.entries
    mFeed,      \* main: recent_posts
    mIndex,     \* main: 1 + the loop variable i
    mPc,        \* main: the statement to execute next
    mItems,     \* main: news_items
    mMessage,   \* main: message
    mTestOk,    \* main: what test_message_format(message) returned
    mCalls,     \* the calls made for the current post, by function
    mSend,      \* the running call of send_telegram_message
    mLog,       \* the POSTs issued for the current post
    mProcessed, \* the posts whose loop body has started
    mReturned   \* what the last call of send_telegram_message returned

vars == <<sText, sMaxLen, sResult, sPc,
          pEntry, pInput, pItems, pDepth, pMessage, pRendered, pPc,
          xContent, xMaxItems, xAll, xResult, xPc,
          eText, eEscaped, eStripped, ePc,
          mEntries, mFeed, mIndex, mPc, mItems, mMessage, mTestOk, mCalls, mSend, mLog,
          mProcessed, mReturned>>

sVars == <<sText, sMaxLen, sResult, sPc>>
pVars == <<pEntry, pInput, pItems, pDepth, pMessage, pRendered, pPc>>
xVars == <<xContent, xMaxItems, xAll, xResult, xPc>>
eVars == <<eText, eEscaped, eStripped, ePc>>
mVars == <<mEntries, mFeed, mIndex, mPc, mItems, mMessage, mTestOk, mCalls, mSend, mLog,
          mProcessed, mReturned>>

----------------------------------------------------------------------------
(* Characters and the str methods the program uses.                        *)

LowerAlpha == <<"a","b","c","d","e","f","g","h","i","j","k","l","m",
                "n","o","p","q","r","s","t","u","v","w","x","y","z">>
UpperAlpha == <<"A","B","C","D","E","F","G","H","I","J","K","L","M",
                "N","O","P","Q","R","S","T","U","V","W","X","Y","Z">>
AlphabetSize == Len(LowerAlpha)
LowerSet == {LowerAlpha[i] : i \in 1..AlphabetSize}
UpperSet == {UpperAlpha[i] : i \in 1..AlphabetSize}
LetterSet == LowerSet \cup UpperSet
DigitSet == {"0","1","2","3","4","5","6","7","8","9"}
\* \s of the re module, as far as the model's texts go
WhiteSet == {" ", "\n", "\t"}

LowerOf == [c \in UpperSet |-> LowerAlpha[CHOOSE i \in 1..AlphabetSize : UpperAlpha[i] = c]]

\* str.lower() on one character
LowerChar(c) == IF c \in UpperSet THEN LowerOf[c] ELSE c

\* str.lower()
Lower(s) == [i \in 1..Len(s) |-> LowerChar(s[i])]

Min(S) == CHOOSE x \in S : \A y \in S : x <= y
Max(S) == CHOOSE x \in S : \A y \in S : x >= y

\* s[:n] for n >= 0
Take(s, n) == SubSeq(s, 1, IF n < Len(s) THEN n ELSE Len(s))

\* s[n:] for n >= 0 (n counts the characters dropped)
Drop(s, n) == SubSeq(s, n + 1, Len(s))

\* whether w occurs in s at position p (1-based)
OccursAt(s, p, w) ==
    /\ p >= 1
    /\ p + Len(w) - 1 <= Len(s)
    /\ \A k \in 1..Len(w) : s[p + k - 1] = w[k]

\* w in s
Contains(s, w) == \E p \in 1..(Len(s) - Len(w) + 1) : OccursAt(s, p, w)

\* str.strip()
Strip(s) ==
    LET keep == {i \in 1..Len(s) : s[i] \notin WhiteSet}
    IN  IF keep = {} THEN <<>> ELSE SubSeq(s, Min(keep), Max(keep))

\* sep.join(parts)
RECURSIVE Join(_, _)
Join(parts, sep) ==
    IF Len(parts) = 0 THEN <<>>
    ELSE IF Len(parts) = 1 THEN parts[1]
    ELSE LET h == Len(parts) \div 2
         IN  Join(SubSeq(parts, 1, h), sep) \o sep \o Join(SubSeq(parts, h + 1, Len(parts)), sep)

\* str.replace(c, rep) for a one-character c
RECURSIVE Replace(_, _, _)
Replace(s, c, rep) ==
    IF \A i \in 1..Len(s) : s[i] # c THEN s
    ELSE IF Len(s) = 1 THEN rep
    ELSE LET h == Len(s) \div 2
         IN  Replace(SubSeq(s, 1, h), c, rep) \o Replace(SubSeq(s, h + 1, Len(s)), c, rep)

\* str.split(): the maximal runs of non-whitespace characters
RECURSIVE SplitWords(_)
SplitWords(s) ==
    LET starts == {i \in 1..Len(s) : s[i] \notin WhiteSet}
    IN  IF starts = {} THEN <<>>
        ELSE LET b == Min(starts)
                 ends == {j \in b..Len(s) : j = Len(s) \/ s[j + 1] \in WhiteSet}
                 e == Min(ends)
             IN  <<SubSeq(s, b, e)>> \o SplitWords(Drop(s, e))

----------------------------------------------------------------------------
(* create_punchy_summary and the three extraction patterns it searches.    *)

\* the alternations (group 2) of the three patterns
Verbs1 == <<
            <<"a","n","n","o","u","n","c","e","d">>,
            <<"r","e","l","e","a","s","e","d">>,
            <<"l","a","u","n","c","h","e","d">>,
            <<"i","n","t","r","o","d","u","c","e","d">>,
            <<"u","n","v","e","i","l","e","d">>,
            <<"a","c","q","u","i","r","e","d">>,
            <<"r","a","i","s","e","d">>,
            <<"s","e","c","u","r","e","d">> >>
Verbs2 == <<
            <<"i","s">>,
            <<"a","r","e">>,
            <<"w","a","s">>,
            <<"w","e","r","e">>,
            <<"h","a","s">>,
            <<"h","a","v","e">> >>
Verbs3 == <<
            <<"r","e","a","c","h","e","d">>,
            <<"a","c","h","i","e","v","e","d">>,
            <<"s","u","r","p","a","s","s","e","d">>,
            <<"h","i","t">> >>

\* A pattern  (subject)\s+(verb|...)\s+(.{cmin,cmax}) : the subject is one
\* character of class first and then characters of class rest, between smin
\* and smax characters in all (smax = 0: no upper limit), as few as possible
\* when lazy and as many as possible otherwise.
Pattern1 == [first |-> "A-Z", rest |-> "a-zA-Z\\s&", smin |-> 2, smax |-> 0,
             lazy |-> TRUE, verbs |-> Verbs1, cmin |-> 10, cmax |-> 50]
Pattern2 == [first |-> "A-Z", rest |-> "a-zA-Z0-9\\s-", smin |-> 2, smax |-> 0,
             lazy |-> TRUE, verbs |-> Verbs2, cmin |-> 10, cmax |-> 50]
Pattern3 == [first |-> ".", rest |-> ".", smin |-> 10, smax |-> 30,
             lazy |-> FALSE, verbs |-> Verbs3, cmin |-> 10, cmax |-> 30]
patterns == <<Pattern1, Pattern2, Pattern3>>

\* whether character c is in the class, under re.IGNORECASE
InClass(c, cls) ==
    CASE cls = "A-Z" -> c \in LetterSet
      [] cls = "a-zA-Z\\s&" -> c \in LetterSet \cup WhiteSet \cup {"&"}
      [] cls = "a-zA-Z0-9\\s-" -> c \in LetterSet \cup DigitSet \cup WhiteSet \cup {"-"}
      [] cls = "." -> c # "\n"

\* length of the run of whitespace that starts at position p
WsRun(text, p) ==
    (CHOOSE j \in p..(Len(text) + 1) :
        /\ j > Len(text) \/ text[j] \notin WhiteSet
        /\ \A m \in p..(j - 1) : text[m] \in WhiteSet) - p

\* number of characters other than newline from position p on, counted up
\* to cap
Avail(text, p, cap) ==
    LET last == IF p + cap - 1 < Len(text) THEN p + cap - 1 ELSE Len(text)
    IN  Min({j \in p..last : text[j] = "\n"} \cup {last + 1}) - p

\* the (lower-case) word w matches at position q, ignoring case
MatchesCI(text, q, w) ==
    /\ q + Len(w) - 1 <= Len(text)
    /\ \A k \in 1..Len(w) : LowerChar(text[q + k - 1]) = w[k]

\* \s+(.{cmin,cmax}) at position r: the whitespace taken, or 0 for no match
CompWs(text, r, pat) ==
    LET ws == {w \in 1..WsRun(text, r) : Avail(text, r + w, pat.cmin) >= pat.cmin}
    IN  IF ws = {} THEN 0 ELSE Max(ws)

\* (verb|...)\s+(.{cmin,cmax}) at position q: the verb's index, or 0
VerbAt(text, q, pat) ==
    LET vs == {v \in 1..Len(pat.verbs) :
                  /\ MatchesCI(text, q, pat.verbs[v])
                  /\ CompWs(text, q + Len(pat.verbs[v]), pat) > 0}
    IN  IF vs = {} THEN 0 ELSE Min(vs)

\* \s+(verb|...)\s+(.{cmin,cmax}) at position p: the whitespace taken, or 0
TailWs(text, p, pat) ==
    LET ws == {w \in 1..WsRun(text, p) : VerbAt(text, p + w, pat) > 0}
    IN  IF ws = {} THEN 0 ELSE Max(ws)

\* the positions of the whitespace characters of text
WsPositions(text) == {p \in 1..Len(text) : text[p] \in WhiteSet}

\* the subject lengths with which the pattern matches at start position i;
\* ws is WsPositions(text): whitespace follows the subject
SubjectLengths(text, i, pat, ws) ==
    LET n == Len(text)
        top == IF pat.smax = 0 \/ pat.smax > n - i THEN n - i ELSE pat.smax
    IN  IF ~InClass(text[i], pat.first) THEN {}
        ELSE {len \in {p - i : p \in {q \in ws : q >= i + pat.smin /\ q <= i + top}} :
                 /\ \A j \in (i + 1)..(i + len - 1) : InClass(text[j], pat.rest)
                 /\ TailWs(text, i + len, pat) > 0}

\* match.groups() of the match that starts at i, has a subject of len
\* characters, its verb v at position q and its complement at position r
MatchGroups(text, pat, i, len, q, v, r) ==
    [found |-> TRUE,
     groups |-> << SubSeq(text, i, i + len - 1),
                   SubSeq(text, q, q + Len(v) - 1),
                   SubSeq(text, r, r + Avail(text, r, pat.cmax) - 1) >>]

MatchAtVerb(text, pat, i, len, q, v) ==
    MatchGroups(text, pat, i, len, q, v, q + Len(v) + CompWs(text, q + Len(v), pat))

MatchAtTail(text, pat, i, len, q) ==
    MatchAtVerb(text, pat, i, len, q, pat.verbs[VerbAt(text, q, pat)])

\* the match with the subject length the quantifier prefers among lens
MatchAtStart(text, pat, i, len) ==
    MatchAtTail(text, pat, i, len, i + len + TailWs(text, i + len, pat))

PreferredLength(pat, lens) == IF pat.lazy THEN Min(lens) ELSE Max(lens)

\* the match at the leftmost of the start positions
MatchFrom(text, pat, ws, starts) ==
    IF starts = {} THEN [found |-> FALSE, groups |-> <<>>]
    ELSE MatchAtStart(text, pat, Min(starts),
                      PreferredLength(pat, SubjectLengths(text, Min(starts), pat, ws)))

\* whitespace follows the subject, so a match starts before the last
\* whitespace character
SearchWith(text, pat, ws) ==
    MatchFrom(text, pat, ws,
              {i \in 1..(IF ws = {} THEN 0 ELSE Max(ws)) :
                  SubjectLengths(text, i, pat, ws) # {}})

\* re.search(pattern, text, re.IGNORECASE): found, and match.groups()
Search(text, pat) == SearchWith(text, pat, WsPositions(text))

\* re.split(r'[.!?]', text)[0]: the text before the first sentence terminator
FirstSentence(text) ==
    LET ends == {i \in 1..Len(text) : text[i] \in {".", "!", "?"}}
    IN  IF ends = {} THEN text ELSE SubSeq(text, 1, Min(ends) - 1)

\* the loop over words: whole words, each followed by a space, while they
\* fit in max_length - 3
RECURSIVE AccumulateWords(_, _, _, _)
AccumulateWords(words, k, summary, max_length) ==
    IF k > Len(words) THEN summary
    ELSE IF Len(summary) + Len(words[k]) + 1 <= max_length - 3
         THEN AccumulateWords(words, k + 1, summary \o words[k] \o <<" ">>, max_length)
         ELSE summary

\* ' '.join(match.groups())
JoinGroups(m) == Join(m.groups, <<" ">>)

\* a pattern matched and its joined groups fit in max_length
Fits(m, max_length) == m.found /\ Len(JoinGroups(m)) <= max_length

\* the patterns that match and whose joined groups fit in max_length; ws is
\* WsPositions(text)
FittingPatterns(text, max_length, ws) ==
    {k \in 1..Len(patterns) : Fits(SearchWith(text, patterns[k], ws), max_length)}

\* the sentence is taken only when it fills half of max_length
SummaryTierHalf(text, max_length, fitting) ==
    IF fitting # {} THEN "pattern"
    ELSE IF Len(text) <= max_length THEN "identity"
    ELSE IF /\ Len(FirstSentence(text)) <= max_length
            /\ 2 * Len(FirstSentence(text)) >= max_length THEN "sentence"
    ELSE "words"

\* which return statement of create_punchy_summary is taken; fitting is
\* FittingPatterns(text, max_length, ws)
SummaryTier(text, max_length, fitting) ==
    IF fitting # {} THEN "pattern"
    ELSE IF Len(text) <= max_length THEN "identity"
    ELSE IF Len(FirstSentence(text)) <= max_length THEN "sentence"
    ELSE "words"

\* what the return statement of a tier returns
TierSummary(tier, text, max_length, ws, fitting) ==
    CASE tier = "pattern" ->
           JoinGroups(SearchWith(text, patterns[Min(fitting)], ws))
      [] tier = "identity" -> text
      [] tier = "sentence" -> Strip(FirstSentence(text))
      [] tier = "words" ->
           Strip(AccumulateWords(SplitWords(text), 1, <<>>, max_length))
               \o <<".", ".", ".">>

SummaryFrom(text, max_length, ws, fitting) ==
    TierSummary(SummaryTier(text, max_length, fitting), text, max_length, ws, fitting)

SummaryWith(text, max_length, ws) ==
    SummaryFrom(text, max_length, ws, FittingPatterns(text, max_length, ws))

create_punchy_summary(text, max_length) ==
    SummaryWith(text, max_length, WsPositions(text))

----------------------------------------------------------------------------
(* escape_markdown_v2 and clean_html.                                      *)

escape_chars == <<"_", "*", "[", "]", "(", ")", "~", "BACKTICK", ">", "#", "+", "-",
                  "=", "|", "{", "}", ".", "!">>

\* the characters that occur in text
CharsOf(text) == {text[i] : i \in 1..Len(text)}

\* the loop over escape_chars from its k-th element on: each occurrence of
\* the character gets a backslash before it (BACKTICK is U+0060); present
\* are the characters of the text, and replacing one that is absent changes
\* nothing
RECURSIVE EscapeFrom(_, _, _)
EscapeFrom(text, k, present) ==
    IF k > Len(escape_chars) THEN text
    ELSE IF escape_chars[k] \notin present THEN EscapeFrom(text, k + 1, present)
    ELSE EscapeFrom(Replace(text, escape_chars[k], <<"\\", escape_chars[k]>>), k + 1, present)

\* the text as it is, with nothing escaped
NoEscape(text) == text

escape_markdown_v2(text) == EscapeFrom(text, 1, CharsOf(text))

\* re.sub(r'<[^>]+>', '', text): a tag is '<', one or more characters other
\* than '>', and the first '>' after them
RECURSIVE RemoveTags(_)
RemoveTags(text) ==
    LET n == Len(text)
        closes(i) == {j \in (i + 2)..n : text[j] = ">"}
        opens == {i \in 1..n : text[i] = "<" /\ i + 1 <= n /\ text[i + 1] # ">"
                                  /\ closes(i) # {}}
    IN  IF opens = {} THEN text
        ELSE LET i == Min(opens)
                 j == Min(closes(i))
             IN  SubSeq(text, 1, i - 1) \o RemoveTags(Drop(text, j))

\* the character references html.unescape decodes in the model's texts
Entities == <<
    [name |-> <<"&","a","m","p",";">>, char |-> "&"],
    [name |-> <<"&","l","t",";">>, char |-> "<"],
    [name |-> <<"&","g","t",";">>, char |-> ">"],
    [name |-> <<"&","#","3","9",";">>, char |-> "'"] >>

\* html.unescape(text): one pass from the left, decoded text is not decoded again
RECURSIVE Unescape(_)
Unescape(text) ==
    LET hits == {i \in 1..Len(text) :
                    text[i] = "&" /\ \E e \in 1..Len(Entities) : OccursAt(text, i, Entities[e].name)}
    IN  IF hits = {} THEN text
        ELSE LET i == Min(hits)
                 e == Min({k \in 1..Len(Entities) : OccursAt(text, i, Entities[k].name)})
             IN  SubSeq(text, 1, i - 1) \o <<Entities[e].char>>
                     \o Unescape(Drop(text, i + Len(Entities[e].name) - 1))

\* re.sub(r'\s+', ' ', text) on text[lo..hi]: every run of whitespace becomes
\* one space
RECURSIVE CollapseRange(_, _, _)
CollapseRange(text, lo, hi) ==
    IF lo > hi THEN <<>>
    ELSE IF lo = hi
         THEN IF text[lo] \notin WhiteSet THEN <<text[lo]>>
              ELSE IF lo > 1 /\ text[lo - 1] \in WhiteSet THEN <<>>
              ELSE <<" ">>
    ELSE LET h == (lo + hi) \div 2
         IN  CollapseRange(text, lo, h) \o CollapseRange(text, h + 1, hi)

clean_html(text) ==
    LET untagged == RemoveTags(text)
        decoded == Unescape(untagged)
    IN  Strip(CollapseRange(decoded, 1, Len(decoded)))

----------------------------------------------------------------------------
(* extract_url_from_text and extract_news_items.                           *)

\* Python's None: a value that is no text (its one element is no character)
None == <<"None">>

\* [^\s\)<>\[\]] of url_pattern
UrlChar(c) == c \notin WhiteSet \cup {")", "<", ">", "[", "]"}

UrlSchemes == << <<"h","t","t","p",":","/","/">>, <<"h","t","t","p","s",":","/","/">> >>

\* re.search(url_pattern, text): the leftmost 'http://' or 'https://' that a
\* URL character follows, with the whole run of URL characters after it (the
\* greedy run leaves nothing for the optional group, which then matches empty)
extract_url_from_text(text) ==
    LET n == Len(text)
        scheme(i) == {k \in 1..Len(UrlSchemes) :
                         /\ OccursAt(text, i, UrlSchemes[k])
                         /\ i + Len(UrlSchemes[k]) <= n
                         /\ UrlChar(text[i + Len(UrlSchemes[k])])}
        starts == {i \in 1..n : text[i] = "h" /\ scheme(i) # {}}
    IN  IF starts = {} THEN None
        ELSE LET i == Min(starts)
                 b == i + Len(UrlSchemes[Min(scheme(i))])
                 e == Min({j \in b..n : ~UrlChar(text[j])} \cup {n + 1})
             IN  SubSeq(text, i, e - 1)

action_keywords == <<
    <<"a","n","n","o","u","n","c","e","d">>,
    <<"r","e","l","e","a","s","e","d">>,
    <<"l","a","u","n","c","h","e","d">>,
    <<"i","n","t","r","o","d","u","c","e","d">>,
    <<"u","n","v","e","i","l","e","d">>,
    <<"d","e","b","u","t","e","d">>,
    <<"p","u","b","l","i","s","h","e","d">>,
    <<"a","c","q","u","i","r","e","d">>,
    <<"r","a","i","s","e","d">>,
    <<"s","e","c","u","r","e","d">>,
    <<"p","a","r","t","n","e","r","e","d">>,
    <<"c","o","l","l","a","b","o","r","a","t","e","d">>,
    <<"a","c","h","i","e","v","e","d">>,
    <<"r","e","a","c","h","e","d">>,
    <<"s","u","r","p","a","s","s","e","d">>,
    <<"d","e","v","e","l","o","p","e","d">>,
    <<"c","r","e","a","t","e","d">>,
    <<"b","u","i","l","t">>,
    <<"d","e","p","l","o","y","e","d">>,
    <<"u","p","d","a","t","e","d">> >>

\* the alternatives of company_pattern, in lower case (it is searched with
\* re.IGNORECASE); the alternative 'GPT-\d+' is its prefix here and takes its
\* digits in CompanyEnd
CompanyNames == <<
    <<"o","p","e","n","a","i">>,
    <<"a","n","t","h","r","o","p","i","c">>,
    <<"g","o","o","g","l","e">>,
    <<"m","i","c","r","o","s","o","f","t">>,
    <<"m","e","t","a">>,
    <<"a","p","p","l","e">>,
    <<"a","m","a","z","o","n">>,
    <<"n","v","i","d","i","a">>,
    <<"t","e","s","l","a">>,
    <<"d","e","e","p","m","i","n","d">>,
    <<"s","t","a","b","i","l","i","t","y"," ","a","i">>,
    <<"h","u","g","g","i","n","g"," ","f","a","c","e">>,
    <<"m","i","s","t","r","a","l">>,
    <<"c","o","h","e","r","e">>,
    <<"i","n","f","l","e","c","t","i","o","n">>,
    <<"c","h","a","r","a","c","t","e","r",".","a","i">>,
    <<"m","i","d","j","o","u","r","n","e","y">>,
    <<"r","u","n","w","a","y","m","l">>,
    <<"p","e","r","p","l","e","x","i","t","y">>,
    <<"c","l","a","u","d","e">>,
    <<"c","h","a","t","g","p","t">>,
    <<"g","p","t","-">>,
    <<"g","e","m","i","n","i">>,
    <<"l","l","a","m","a">>,
    <<"d","a","l","l","-","e">>,
    <<"c","o","p","i","l","o","t">>,
    <<"b","a","r","d">> >>

GptPrefix == <<"g","p","t","-">>

\* \w of the re module
WordChar(c) == c \in LetterSet \cup DigitSet \cup {"_"}

\* \b between positions p - 1 and p of text
Boundary(text, p) ==
    LET before == p > 1 /\ WordChar(text[p - 1])
        after == p <= Len(text) /\ WordChar(text[p])
    IN  before # after

\* the position after alternative w matched at position p, or 0 for no match
CompanyEnd(text, p, w) ==
    IF ~MatchesCI(text, p, w) THEN 0
    ELSE IF w # GptPrefix THEN p + Len(w)
    ELSE LET d == p + Len(w)
             e == Min({j \in d..Len(text) : text[j] \notin DigitSet} \cup {Len(text) + 1})
         IN  IF e > d THEN e ELSE 0

\* re.search(company_pattern, line, re.IGNORECASE) finds a match
HasCompany(line) ==
    \E p \in 1..Len(line) :
        /\ Boundary(line, p)
        /\ \E k \in 1..Len(CompanyNames) :
              LET e == CompanyEnd(line, p, CompanyNames[k])
              IN  e > 0 /\ Boundary(line, e)

\* any(keyword in line_lower for keyword in action_keywords)
HasAction(line) ==
    LET line_lower == Lower(line)
    IN  \E k \in 1..Len(action_keywords) : Contains(line_lower, action_keywords[k])

\* the length of the match of ^[-•*]\s* at the start of line, 0 for no match
\* (BULLET is U+2022)
BulletLen(line) ==
    IF Len(line) > 0 /\ line[1] \in {"-", "BULLET", "*"} THEN 1 + WsRun(line, 2) ELSE 0

\* the length of the match of ^\d+\.\s* at the start of line, 0 for no match
NumberLen(line) ==
    LET d == Min({j \in 1..Len(line) : line[j] \notin DigitSet} \cup {Len(line) + 1})
    IN  IF d > 1 /\ d <= Len(line) /\ line[d] = "." THEN d + WsRun(line, d + 1) ELSE 0

\* the score of a line
Score(line) ==
    (IF HasAction(line) THEN 2 ELSE 0) + (IF HasCompany(line) THEN 2 ELSE 0)
        + (IF BulletLen(line) > 0 THEN 1 ELSE 0) + (IF NumberLen(line) > 0 THEN 1 ELSE 0)

\* the two re.sub calls that remove a leading bullet and then a leading number
CleanLine(line) ==
    LET unbulleted == Drop(line, BulletLen(line))
    IN  Drop(unbulleted, NumberLen(unbulleted))

\* the length of the separator  \n|(?<=[.!?])\s+(?=[A-Z])  at position p, 0
\* for no match
SeparatorLen(text, p) ==
    IF text[p] = "\n" THEN 1
    ELSE LET run == WsRun(text, p)
         IN  IF /\ run > 0
                /\ p > 1 /\ text[p - 1] \in {".", "!", "?"}
                /\ p + run <= Len(text) /\ text[p + run] \in UpperSet
             THEN run
             ELSE 0

\* re.split(separator, text)
RECURSIVE SplitLines(_)
SplitLines(text) ==
    LET seps == {p \in 1..Len(text) : SeparatorLen(text, p) > 0}
    IN  IF seps = {} THEN <<text>>
        ELSE LET p == Min(seps)
             IN  <<SubSeq(text, 1, p - 1)>> \o SplitLines(Drop(text, p + SeparatorLen(text, p) - 1))

\* the minimum length of a line (the literal of the length test in the loop)
MinLineLength == 30

\* the score a line needs to be included
ScoreThreshold == 2

\* every score is taken
QualifiesAlways(score) == score >= 0

\* if score >= 2
Qualifies(score) == score >= ScoreThreshold

\* the loop over lines from the k-th on; news_items and seen_items are the
\* loop's accumulators
RECURSIVE ScanLines(_, _, _, _)
ScanLines(lines, k, news_items, seen_items) ==
    IF k > Len(lines) THEN news_items
    ELSE LET line == Strip(lines[k])
         IN  IF Len(line) < MinLineLength \/ line \in seen_items
             THEN ScanLines(lines, k + 1, news_items, seen_items)
             ELSE IF Qualifies(Score(line))
                  THEN LET clean_line == CleanLine(line)
                           item == [text |-> clean_line,
                                    url |-> extract_url_from_text(clean_line),
                                    score |-> Score(line)]
                       IN  ScanLines(lines, k + 1, Append(news_items, item),
                                     seen_items \cup {line})
                  ELSE ScanLines(lines, k + 1, news_items, seen_items)

\* news_items as the loop of extract_news_items leaves it, in order of discovery
ScanContent(content) == ScanLines(SplitLines(clean_html(content)), 1, <<>>, {})

\* inserts item before the items of the same score
InsertBeforeTies(sorted, item) ==
    LET ahead == {i \in 1..Len(sorted) : sorted[i].score > item.score}
        k == IF ahead = {} THEN 0 ELSE Max(ahead)
    IN  SubSeq(sorted, 1, k) \o <<item>> \o SubSeq(sorted, k + 1, Len(sorted))

\* inserts item into a list sorted by score, highest first, behind the items
\* of the same score
InsertByScore(sorted, item) ==
    LET ahead == {i \in 1..Len(sorted) : sorted[i].score >= item.score}
        k == IF ahead = {} THEN 0 ELSE Max(ahead)
    IN  SubSeq(sorted, 1, k) \o <<item>> \o SubSeq(sorted, k + 1, Len(sorted))

\* news_items.sort(key=lambda x: x['score'], reverse=True): list.sort is
\* stable, and with reverse=True items of equal score keep their order
RECURSIVE SortByScore(_)
SortByScore(items) ==
    IF Len(items) = 0 THEN <<>>
    ELSE InsertByScore(SortByScore(SubSeq(items, 1, Len(items) - 1)), items[Len(items)])

\* s[:n], also for a negative n
SliceTo(s, n) ==
    IF n >= 0 THEN Take(s, n)
    ELSE IF Len(s) + n > 0 THEN Take(s, Len(s) + n) ELSE <<>>

\* the sort and the slice that end extract_news_items
SortAndSlice(news_items, max_items) == SliceTo(SortByScore(news_items), max_items)

extract_news_items(content, max_items) ==
    SortAndSlice(ScanContent(content), max_items)

----------------------------------------------------------------------------
(* format_telegram_message.                                                *)

TELEGRAM_MAX_LENGTH == 4096

\* the margin subtracted from TELEGRAM_MAX_LENGTH in the final length check
SafetyMargin == 100

\* the default of create_punchy_summary's max_length
DefaultMaxLength == 80

\* news_items[:5]: the items one message shows
ShownItems == 5

\* news_items[:3]: the items the recursive call is given
RetryItems == 3

\* the length above which the fallback summary is cut, and where it is cut
FallbackLimit == 200
FallbackCut == 197

DefaultTitle == <<"A","I"," ","N","e","w","s"," ","U","p","d","a","t","e">>
Ellipsis == <<".", ".", ".">>

\* dict.get(key, default): None stands for a key the entry does not have
Get(value, default) == IF value = None THEN default ELSE value

\* str(i) for 0 <= i <= 9
Digits == <<"0","1","2","3","4","5","6","7","8","9">>
IntToStr(i) == <<Digits[i + 1]>>

\* the parts one item appends; i is its number (ROBOT, NEWSPAPER, LINK and
\* PAGE stand for U+1F916, U+1F4F0, U+1F517 and U+1F4C4)
ItemParts(i, item) ==
    LET summary == create_punchy_summary(item.text, DefaultMaxLength)
        escaped_summary == escape_markdown_v2(summary)
        numbered == IntToStr(i) \o <<"\\", ".", " ">> \o escaped_summary
    IN  IF item.url # None /\ item.url # <<>>
        THEN << numbered,
                <<" "," "," ","LINK"," ","[","L","i","n","k","]","(">> \o escape_markdown_v2(item.url) \o <<")">>,
                <<>> >>
        ELSE << numbered, <<>> >>

\* the loop over enumerate(shown, 1) from the i-th item on
RECURSIVE ItemsParts(_, _)
ItemsParts(shown, i) ==
    IF i > Len(shown) THEN <<>>
    ELSE ItemParts(i, shown[i]) \o ItemsParts(shown, i + 1)

\* the else branch: the entry's own summary, cleaned and cut
FallbackParts(entry) ==
    LET raw == Get(entry.summary, Get(entry.description, <<>>))
        cleaned == clean_html(raw)
        summary == IF Len(cleaned) > FallbackLimit
                   THEN Take(cleaned, FallbackCut) \o Ellipsis
                   ELSE cleaned
    IN  IF raw = <<>> THEN <<>>
        ELSE << escape_markdown_v2(summary), <<>> >>

\* parts, as it is when it is joined
MessageParts(entry, news_items) ==
    LET title == Get(entry.title, DefaultTitle)
        link == Get(entry.link, <<>>)
        header == << <<"ROBOT"," ","*">> \o escape_markdown_v2(title) \o <<"*">>, <<>> >>
        body == IF news_items # <<>>
                THEN << <<"NEWSPAPER"," ","*","T","o","p"," ","A","I"," ","N","e","w","s",":","*">>, <<>> >> \o ItemsParts(Take(news_items, ShownItems), 1)
                ELSE FallbackParts(entry)
        footer == IF link # <<>>
                  THEN << <<"PAGE"," ","[","R","e","a","d"," ","f","u","l","l"," ","p","o","s","t","]","(">> \o escape_markdown_v2(link) \o <<")">> >>
                  ELSE <<>>
    IN  header \o body \o footer

\* message = '\n'.join(parts)
BuildMessage(entry, news_items) == Join(MessageParts(entry, news_items), <<"\n">>)

\* the length check without the safety margin
TooLongNoMargin(message) == Len(message) > TELEGRAM_MAX_LENGTH

\* the final length check
TooLong(message) == Len(message) > TELEGRAM_MAX_LENGTH - SafetyMargin

\* a retry with the first four items
RetryFour(news_items) == Take(news_items, 4)

\* a retry with one item fewer
RetryOneFewer(news_items) == Take(news_items, Len(news_items) - 1)

\* the argument of the recursive call
RetryList(news_items) == Take(news_items, RetryItems)

----------------------------------------------------------------------------
(* The calls of format_telegram_message: one step builds and joins the     *)
(* parts, the next takes the final length check, which returns the message *)
(* or calls format_telegram_message again with the first RetryItems items. *)

\* the number of items of the longest list given to format_telegram_message
MaxItems == 5

\* the depth at which the interpreter stops a recursion (sys.getrecursionlimit(),
\* 1000 by default) and raises RecursionError
RecursionLimit == 2

\* the lengths of the URLs and of the title of the long inputs
LongUrlLen == 699
HugeUrlLen == 1320
LongTitleLen == 4000

\* the character c, n times
RECURSIVE Rep(_, _)
Rep(c, n) ==
    IF n <= 0 THEN <<>>
    ELSE IF n = 1 THEN <<c>>
    ELSE Rep(c, n \div 2) \o Rep(c, n - n \div 2)

\* the prefix of the long URLs
UrlHead == <<"h","t","t","p","s",":","/","/","e",".","i","o","/">>

\* three items as extract_news_items makes them: one without a URL, two whose
\* text ends with a long URL
ItemPlain == [text |-> <<"O","p","e","n","A","I"," ","a","n","n","o","u","n","c","e","d"," ","a"," ","b","r","a","n","d"," ","n","e","w"," ","m","o","d","e","l"," ","t","o","d","a","y",".">>,
              url |-> None, score |-> 4]
ItemLong == [text |-> <<"G","o","o","g","l","e"," ","r","e","l","e","a","s","e","d"," ","G","e","m","i","n","i",":"," ">> \o UrlHead \o Rep("x", LongUrlLen),
             url |-> UrlHead \o Rep("x", LongUrlLen), score |-> 4]
ItemHuge == [text |-> <<"T","h","e","y"," ","l","a","u","n","c","h","e","d"," ","i","t"," ","(","b","e","t","a",")"," ">> \o UrlHead \o Rep("x", HugeUrlLen),
             url |-> UrlHead \o Rep("x", HugeUrlLen), score |-> 2]

\* the items and the entries are named in the state: a list of items is a
\* sequence of names of ItemPool
ItemPool == {"plain", "long", "huge"}
Item(name) ==
    CASE name = "plain" -> ItemPlain
      [] name = "long" -> ItemLong
      [] name = "huge" -> ItemHuge

\* the list of dicts that a sequence of names stands for
Items(names) == [i \in 1..Len(names) |-> Item(names[i])]

EntryPlain == [title |-> <<"D","a","i","l","y"," ","A","I"," ","#","1">>, link |-> <<"h","t","t","p","s",":","/","/","s","m","o","l",".","a","i","/","1">>,
               summary |-> <<"<","p",">","P","l","a","i","n"," ","&","a","m","p",";"," ","s","i","m","p","l","e",".","<","/","p",">">>, description |-> None]
EntryBare == [title |-> None, link |-> None, summary |-> None,
              description |-> <<"N","o","t","h","i","n","g"," ","n","e","w","."," ">> \o Rep("y", FallbackLimit) \o <<" ","T","h","e"," ","e","n","d",".">>]
EntryLongTitle == [title |-> Rep("T", LongTitleLen), link |-> <<>>,
                   summary |-> None, description |-> None]
EntryPool == {"plain", "bare", "longtitle"}
Entry(name) ==
    CASE name = "plain" -> EntryPlain
      [] name = "bare" -> EntryBare
      [] name = "longtitle" -> EntryLongTitle

\* the score of the item a name stands for
ItemScore(name) == IF name = "huge" THEN 2 ELSE 4

\* the lists of at most n names of ItemPool that main can hand over: the
\* result of extract_news_items, in descending order of score
ItemLists(n) ==
    {l \in UNION {[1..k -> ItemPool] : k \in 0..n} :
        \A i \in 1..Len(l) : \A j \in i..Len(l) :
            ItemScore(l[i]) >= ItemScore(l[j])}

PackerIdle ==
    /\ pEntry = "none" /\ pInput = <<>> /\ pItems = <<>> /\ pDepth = 0
    /\ pMessage = <<>> /\ pRendered = 0 /\ pPc = "idle"

SummaryIdle == sText = <<>> /\ sMaxLen = 0 /\ sResult = <<>> /\ sPc = "idle"

ExtractIdle ==
    xContent = <<>> /\ xMaxItems = 0 /\ xAll = <<>> /\ xResult = <<>> /\ xPc = "idle"

EscapeIdle == eText = <<>> /\ eEscaped = <<>> /\ eStripped = <<>> /\ ePc = "idle"

\* no call of send_telegram_message is running
NoSend == [text |-> <<>>, parse_mode |-> "none", data_mode |-> "none",
           attempt |-> 0, caller |-> "none"]

\* no call has been made for the current post
NoCalls == [extract |-> 0, format |-> 0, error |-> 0]

MainIdle ==
    /\ mEntries = <<>> /\ mFeed = <<>> /\ mIndex = 0 /\ mPc = "idle" /\ mItems = <<>>
    /\ mMessage = <<>> /\ mTestOk = "none" /\ mCalls = NoCalls
    /\ mSend = NoSend /\ mLog = <<>> /\ mProcessed = <<>> /\ mReturned = "none"

PackerInit ==
    /\ pEntry \in EntryPool
    /\ pInput \in ItemLists(MaxItems)
    /\ pItems = pInput
    /\ pDepth = 0
    /\ pMessage = <<>>
    /\ pRendered = 0
    /\ pPc = "call"

\* the body of format_telegram_message down to the join
PackerBuild ==
    /\ pPc = "call"
    /\ pMessage' = BuildMessage(Entry(pEntry), Items(pItems))
    /\ pRendered' = Len(Take(pItems, ShownItems))
    /\ pPc' = "check"
    /\ UNCHANGED <<pEntry, pInput, pItems, pDepth, sVars, xVars, eVars, mVars>>

\* the final length check finds the message short enough: return message
PackerReturn ==
    /\ pPc = "check"
    /\ ~TooLong(pMessage)
    /\ pPc' = "returned"
    /\ UNCHANGED <<pEntry, pInput, pItems, pDepth, pMessage, pRendered, sVars, xVars, eVars, mVars>>

\* the final length check finds the message too long:
\* return format_telegram_message(entry, news_items[:3])
PackerRecurse ==
    /\ pPc = "check"
    /\ TooLong(pMessage)
    /\ pDepth < RecursionLimit
    /\ pItems' = RetryList(pItems)
    /\ pDepth' = pDepth + 1
    /\ pPc' = "call"
    /\ UNCHANGED <<pEntry, pInput, pMessage, pRendered, sVars, xVars, eVars, mVars>>

\* the recursive call at the interpreter's recursion limit raises RecursionError
PackerOverflow ==
    /\ pPc = "check"
    /\ TooLong(pMessage)
    /\ pDepth = RecursionLimit
    /\ pPc' = "RecursionError"
    /\ UNCHANGED <<pEntry, pInput, pItems, pDepth, pMessage, pRendered, sVars, xVars, eVars, mVars>>

\* format_telegram_message called on every entry and item list of the pools
PackerSpecInit == PackerInit /\ SummaryIdle /\ ExtractIdle /\ EscapeIdle /\ MainIdle
PackerNext == PackerBuild \/ PackerReturn \/ PackerRecurse \/ PackerOverflow
SpecPacker == PackerSpecInit /\ [][PackerNext]_vars

----------------------------------------------------------------------------
(* The calls of create_punchy_summary: one action for each of its return   *)
(* statements.                                                             *)

\* the number of tokens of the longest text given to create_punchy_summary
MaxTokens == 3

\* the tokens the texts are made of
Vocabulary == {
    <<","," ">>,
    <<"A","b"," ","r","a","i","s","e","d"," ">>,
    <<"a","b","c","d","e","f","g","h","i","j">>,
    <<"."," ">>,
    <<"a","b"," ">>,
    <<"i","t"," ","i","s"," ">>,
    <<" ","h","i","t"," ">> }

\* the concatenations of at most n elements of the set of strings
RECURSIVE Concatenations(_, _)
Concatenations(strings, n) ==
    IF n = 0 THEN {<<>>}
    ELSE Concatenations(strings, n - 1)
             \cup {t \o v : t \in Concatenations(strings, n - 1), v \in strings}

\* the values of max_length: the default of the signature and small ones
MaxLengths == {2, 3, 8, 20, DefaultMaxLength}

SummaryInit ==
    /\ sText \in Concatenations(Vocabulary, MaxTokens)
    /\ sMaxLen \in MaxLengths
    /\ sResult = <<>>
    /\ sPc = "call"

\* no pattern matches the text of the call with joined groups that fit
NoPatternFits == FittingPatterns(sText, sMaxLen, WsPositions(sText)) = {}

\* the call returns what create_punchy_summary returns
Returns ==
    /\ sResult' = create_punchy_summary(sText, sMaxLen)
    /\ sPc' = "returned"
    /\ UNCHANGED <<sText, sMaxLen, pVars, xVars, eVars, mVars>>

\* return summary, in the loop over the patterns
SummaryPattern ==
    /\ sPc = "call"
    /\ ~NoPatternFits
    /\ Returns

\* return text
SummaryIdentity ==
    /\ sPc = "call"
    /\ Len(sText) <= sMaxLen
    /\ NoPatternFits
    /\ Returns

\* return sentences[0].strip()
SummarySentence ==
    /\ sPc = "call"
    /\ Len(sText) > sMaxLen
    /\ Len(FirstSentence(sText)) <= sMaxLen
    /\ NoPatternFits
    /\ Returns

\* return summary.strip() + "..."
SummaryWords ==
    /\ sPc = "call"
    /\ Len(sText) > sMaxLen
    /\ Len(FirstSentence(sText)) > sMaxLen
    /\ NoPatternFits
    /\ Returns

\* create_punchy_summary called on every text and max_length of the pools
SummarySpecInit == SummaryInit /\ PackerIdle /\ ExtractIdle /\ EscapeIdle /\ MainIdle
SummaryNext == SummaryPattern \/ SummaryIdentity \/ SummarySentence \/ SummaryWords
SpecSummary == SummarySpecInit /\ [][SummaryNext]_vars

----------------------------------------------------------------------------
(* The calls of extract_news_items.                                        *)

\* the number of pieces of the longest content given to extract_news_items
MaxPieces == 3

\* the largest max_items
MaxReturn == 3

\* the pieces the contents are made of: three numbered items, a bulleted and
\* a plain one, one with an action keyword only, one with no keyword, and a
\* bulleted and numbered one with no sentence terminator at its end
PieceOne == <<"1","."," ","O","p","e","n","A","I"," ","r","e","l","e","a","s","e","d"," ","t","h","e"," ","n","e","w"," ","m","o","d","e","l"," ","t","o","d","a","y",".","\n">>
PieceTwo == <<"2","."," ","O","p","e","n","A","I"," ","r","e","l","e","a","s","e","d"," ","t","h","e"," ","n","e","w"," ","m","o","d","e","l"," ","t","o","d","a","y","."," ","\n">>
PieceThree == <<"3","."," ","G","o","o","g","l","e"," ","l","a","u","n","c","h","e","d"," ","G","e","m","i","n","i"," ","f","o","r"," ","a","l","l"," ","u","s","e","r","s",".","\n">>
PieceBullet == <<"-"," ","O","p","e","n","A","I"," ","r","e","l","e","a","s","e","d"," ","t","h","e"," ","n","e","w"," ","m","o","d","e","l"," ","t","o","d","a","y","."," ">>
PiecePlain == <<"O","p","e","n","A","I"," ","r","e","l","e","a","s","e","d"," ","t","h","e"," ","n","e","w"," ","m","o","d","e","l"," ","t","o","d","a","y","."," ">>
PieceAction == <<"T","h","e","y"," ","u","p","d","a","t","e","d"," ","t","h","e"," ","w","h","o","l","e"," ","p","i","p","e","l","i","n","e"," ","a","g","a","i","n","."," ">>
PieceIdle == <<"N","o","t","h","i","n","g"," ","e","l","s","e"," ","h","a","p","p","e","n","e","d"," ","o","v","e","r"," ","t","h","e"," ","w","e","e","k","e","n","d","."," ">>
PieceFragment == <<"-"," ","2","0","2","4","1","1","0","5","."," ","g","p","t","-","4"," ","j","u","s","t"," ","u","p","d","a","t","e","d"," ">>
Pieces == {PieceOne, PieceTwo, PieceThree, PieceBullet, PiecePlain, PieceAction, PieceIdle,
           PieceFragment}

ExtractInit ==
    /\ xContent \in Concatenations(Pieces, MaxPieces)
    /\ xMaxItems = 0
    /\ xAll = <<>>
    /\ xResult = <<>>
    /\ xPc = "call"

\* the whole of extract_news_items(content, max_items), for every max_items
\* up to MaxReturn: xAll is news_items when the loop over the lines ends,
\* xResult the sorted and sliced list the call returns
Extract ==
    /\ xPc = "call"
    /\ xAll' = ScanContent(xContent)
    /\ \E max_items \in 0..MaxReturn :
          /\ xMaxItems' = max_items
          /\ xResult' = SortAndSlice(xAll', max_items)
    /\ xPc' = "returned"
    /\ UNCHANGED <<xContent, sVars, pVars, eVars, mVars>>

\* extract_news_items called on every content and max_items of the pools
ExtractSpecInit == ExtractInit /\ PackerIdle /\ SummaryIdle /\ EscapeIdle /\ MainIdle
ExtractNext == Extract
SpecExtract == ExtractSpecInit /\ [][ExtractNext]_vars

----------------------------------------------------------------------------
(* The calls of escape_markdown_v2, and the removal of the backslashes     *)
(* with which main starts its conversion of an escaped message.            *)

\* the number of characters of the longest text given to escape_markdown_v2
MaxEscapeLen == 3

\* the characters of the texts: a letter, special characters, the backslash
EscapeAlphabet == {<<"a">>, <<".">>, <<"_">>, <<"*">>, <<"!">>, <<"\\">>}

\* message.replace('\\', '')
StripBackslashes(message) == Replace(message, "\\", <<>>)

EscapeInit ==
    /\ eText \in Concatenations(EscapeAlphabet, MaxEscapeLen)
    /\ eEscaped = <<>>
    /\ eStripped = <<>>
    /\ ePc = "call"

\* escape_markdown_v2(text)
Escape ==
    /\ ePc = "call"
    /\ eEscaped' = escape_markdown_v2(eText)
    /\ ePc' = "escaped"
    /\ UNCHANGED <<eText, eStripped, sVars, pVars, xVars, mVars>>

\* the escaped text loses its backslashes
StripEscaped ==
    /\ ePc = "escaped"
    /\ eStripped' = StripBackslashes(eEscaped)
    /\ ePc' = "stripped"
    /\ UNCHANGED <<eText, eEscaped, sVars, pVars, xVars, mVars>>

\* escape_markdown_v2 called on every text of the pool
EscapeSpecInit == EscapeInit /\ PackerIdle /\ SummaryIdle /\ ExtractIdle /\ MainIdle
EscapeNext == Escape \/ StripEscaped
SpecEscape == EscapeSpecInit /\ [][EscapeNext]_vars

----------------------------------------------------------------------------
(* main: the loop over the first posts of recent_posts. Each post is       *)
(* extracted, formatted, tested and sent; send_telegram_message POSTs at   *)
(* most max_retries times, and the delivery surface chooses each response. *)

\* the character at position i is c and no backslash stands before it:
\* a match of (?<!\\)c at i
UnescapedAt(message, i, c) ==
    message[i] = c /\ (i = 1 \/ message[i - 1] # "\\")

\* re.search('(?<!\\)c', message)
HasUnescaped(message, c) == \E i \in 1..Len(message) : UnescapedAt(message, i, c)

\* re.search('(?<!\\)c[^c]+(?<!\\)c', message): an unescaped c, at least one
\* other character, and the next c, with no backslash before it
HasPair(message, c) ==
    \E i \in 1..Len(message) :
        /\ UnescapedAt(message, i, c)
        /\ \E j \in (i + 2)..Len(message) :
              /\ message[j] = c
              /\ message[j - 1] # "\\"
              /\ \A k \in (i + 1)..(j - 1) : message[k] # c

\* message.count(marker) - message.count('\\' + marker)
MarkerCount(message, marker) ==
    Cardinality({i \in 1..Len(message) : message[i] = marker})
        - Cardinality({i \in 2..Len(message) :
                          message[i] = marker /\ message[i - 1] = "\\"})

\* the issues list of test_message_format, as a set
FormatIssues(message) ==
    {<<"Unescaped", escape_chars[k]>> : k \in
        {k \in 1..Len(escape_chars) :
            /\ HasUnescaped(message, escape_chars[k])
            /\ ~(escape_chars[k] \in {"*", "_"} /\ HasPair(message, escape_chars[k]))}}
    \cup
    {<<"Unbalanced", marker>> : marker \in
        {marker \in {"*", "_", "BACKTICK"} : MarkerCount(message, marker) % 2 # 0}}

\* a test of the balance of the markers alone
BalanceOnly(message) ==
    \A marker \in {"*", "_", "BACKTICK"} : MarkerCount(message, marker) % 2 = 0

test_message_format(message) == FormatIssues(message) = {}

\* the conversion of a message that failed the test: the backslashes are
\* removed, every star becomes <b> (the second replace finds no star left)
\* and every underscore becomes <i>
HtmlOf(message) ==
    LET plain == Replace(message, "\\", <<>>)
        bold == Replace(Replace(plain, "*", <<"<","b",">">>), "*", <<"<","/","b",">">>)
    IN  Replace(Replace(bold, "_", <<"<","i",">">>), "_", <<"<","/","i",">">>)

\* format_telegram_message as main sees it: the message, or the
\* RecursionError of a message that stays too long
RECURSIVE FormatAt(_, _, _)
FormatAt(entry, news_items, depth) ==
    LET message == BuildMessage(entry, news_items)
    IN  IF ~TooLong(message) THEN [raised |-> FALSE, message |-> message]
        ELSE IF depth = RecursionLimit THEN [raised |-> TRUE, message |-> <<>>]
        ELSE FormatAt(entry, RetryList(news_items), depth + 1)

format_telegram_message(entry, news_items) == FormatAt(entry, news_items, 0)

\* the limits of main and of send_telegram_message
max_retries == 3
PostLimit == 2
MainMaxItems == 5
ErrorCut == 100
FatalCut == 200
TruncationReserve == 20
RecentHours == 25

\* the message sent whole, however long it is
SendTextWhole(message) == message

\* the marker that ends a message cut to the limit
TruncationMarker == <<"\n","\n","\\",".","\\",".","\\",".","t","r","u","n","c","a","t","e","d">>

\* the message as send_telegram_message puts it into data['text']
SendText(message) ==
    IF Len(message) > TELEGRAM_MAX_LENGTH
    THEN Take(message, TELEGRAM_MAX_LENGTH - TruncationReserve) \o TruncationMarker
    ELSE message

\* the state of send_telegram_message(message, parse_mode) before its loop
StartSend(message, parse_mode, caller) ==
    [text |-> SendText(message), parse_mode |-> parse_mode,
     data_mode |-> parse_mode, attempt |-> 0, caller |-> caller]

\* where the caller goes on when send_telegram_message returns True: main
\* returns after the message about an empty feed and after the one of its
\* outer handler, and goes to the end of the loop body otherwise
AfterSendTrue(caller) ==
    CASE caller \in {"empty", "fatal"} -> "done"
      [] caller = "call" -> "returned"
      [] OTHER -> "next"

\* a failed send is followed by nothing, whoever called
NoPlainAfterFalse(caller) == AfterSendTrue(caller)

\* a failed HTML send is followed by a new extraction
ExtractAfterFalse(caller) == IF caller = "html" THEN "extract" ELSE AfterSendTrue(caller)

\* a failed send of a post ends main
DoneAfterFalse(caller) ==
    IF caller \in {"html", "markdown", "error"} THEN "done" ELSE AfterSendTrue(caller)

\* where the caller goes on when send_telegram_message returns False: only
\* the HTML send has an else branch, the plain text
AfterSendFalse(caller) == IF caller = "html" THEN "plain" ELSE AfterSendTrue(caller)

\* str(e) of the RecursionError, up to the words that tell where it was raised
RecursionMessage == <<"m","a","x","i","m","u","m"," ","r","e","c","u","r","s","i","o","n"," ","d","e","p","t","h"," ","e","x","c","e","e","d","e","d">>

\* str(e) of the TypeError of a comparison of datetimes
TypeErrorMessage == <<"c","a","n","'","t"," ","c","o","m","p","a","r","e"," ","o","f","f","s","e","t","-","n","a","i","v","e"," ","a","n","d"," ","o","f","f","s","e","t","-","a","w","a","r","e"," ","d","a","t","e","t","i","m","e","s">>

\* error_msg of the handler of the loop body (WARNING and VS16 stand for
\* U+26A0 and U+FE0F)
ErrorMessage(text) ==
    <<"WARNING","VS16"," ","E","r","r","o","r"," ","p","r","o","c","e","s","s","i","n","g"," ","p","o","s","t",":"," ">>
        \o escape_markdown_v2(Take(text, ErrorCut))

\* error_msg of the outer handler of main
FatalMessage(text) ==
    <<"WARNING","VS16"," ","B","o","t"," ","e","r","r","o","r",":"," ">>
        \o escape_markdown_v2(Take(text, FatalCut))

\* the message about a feed without entries
NoPostsMessage == <<"WARNING","VS16"," ","N","o"," ","p","o","s","t","s"," ","f","o","u","n","d"," ","i","n"," ","A","I"," ","n","e","w","s"," ","f","e","e","d","\\","."," ","C","h","e","c","k"," ","[","n","e","w","s","\\",".","s","m","o","l","\\",".","a","i","]","(","h","t","t","p","s",":","/","/","n","e","w","s",".","s","m","o","l",".","a","i",")"," ","d","i","r","e","c","t","l","y","\\",".">>

\* the number of entries of the longest feed
MaxFeed == 3

\* a post with items, a link and an underscore in its title
EntryLinked == [title |-> <<"A","I","_","N","e","w","s">>,
                link |-> <<"h","t","t","p","s",":","/","/","s","m","o","l",".","a","i","/","2">>,
                summary |-> PieceOne \o PieceThree, description |-> None]

\* the length of the title of a post whose message has room for three items
NewsTitleLen == 3800

\* two sentences that score 4 and have no URL
SentenceGoogle == <<"G","o","o","g","l","e"," ","l","a","u","n","c","h","e","d"," ","G","e","m","i","n","i"," ","f","o","r"," ","a","l","l"," ","u","s","e","r","s","."," ">>
SentenceMeta == <<"M","e","t","a"," ","a","n","n","o","u","n","c","e","d"," ","L","l","a","m","a"," ","f","o","r"," ","e","v","e","r","y"," ","p","h","o","n","e","."," ">>

\* a sentence that scores 2 and ends in a URL
SentenceUpdated ==
    <<"T","h","e","y"," ","u","p","d","a","t","e","d"," ","t","h","e"," ","w","h","o","l","e"," ","p","i","p","e","l","i","n","e"," ","a","g","a","i","n",":"," ">>
        \o UrlHead \o <<"x", " ">>

\* a post without a link, with three items without a URL and a fourth with a
\* URL, and a title so long that the message of the four items is too long
EntryNews == [title |-> Rep("T", NewsTitleLen), link |-> None,
              summary |-> PiecePlain \o SentenceGoogle \o SentenceMeta \o SentenceUpdated,
              description |-> None]

\* a post without a link, with one item, which has a URL
EntryCited == [title |-> <<"A","I"," ","N","e","w","s">>, link |-> None,
               summary |-> <<"A","n","t","h","r","o","p","i","c"," ","r","e","l","e","a","s","e","d"," ","C","l","a","u","d","e"," ","t","o","d","a","y",":"," ">>
                               \o UrlHead \o <<"c", " ">>,
               description |-> None]

\* the posts are named in the state, like the entries
PostPool == {"bare", "longtitle", "linked", "news", "cited", "plain"}
Post(name) ==
    CASE name = "linked" -> EntryLinked
      [] name = "news" -> EntryNews
      [] name = "cited" -> EntryCited
      [] OTHER -> Entry(name)

\* entry.get('published', entry.get('updated', '')) of each post: the form of
\* the date string and the hours since the instant it names; one post has no
\* date, one a date of RFC 2822 of 24 hours ago, one of an hour ago, one of 26
\* hours ago, one a string that is no date, one a date of ISO 8601 with its
\* time zone
Published(name) ==
    CASE name = "bare" -> [form |-> "missing", age |-> 0]
      [] name = "linked" -> [form |-> "rfc2822", age |-> 24]
      [] name = "cited" -> [form |-> "rfc2822", age |-> 1]
      [] name = "news" -> [form |-> "rfc2822", age |-> 26]
      [] name = "longtitle" -> [form |-> "garbled", age |-> 0]
      [] name = "plain" -> [form |-> "iso8601", age |-> 1]

\* parse_rss_date(date_str): email.utils.parsedate_tz reads a date of RFC 2822
\* and datetime.fromtimestamp gives it as a naive local datetime; strptime
\* with %z reads a date of ISO 8601 as an aware datetime; a string of no format
\* gives None
parse_rss_date(date) ==
    CASE date.form = "rfc2822" -> [kind |-> "naive", age |-> date.age]
      [] date.form = "iso8601" -> [kind |-> "aware", age |-> date.age]
      [] OTHER -> [kind |-> "None", age |-> 0]

\* is_recent_post(entry, hours): "True", "False", or the TypeError that the
\* comparison of an aware datetime with the naive cutoff_date raises
is_recent_post(name, hours) ==
    LET date == Published(name)
        published_date == parse_rss_date(date)
    IN  IF date.form = "missing" THEN "True"
        ELSE IF published_date.kind = "None" THEN "True"
        ELSE IF published_date.kind = "aware" THEN "TypeError"
        ELSE IF published_date.age < hours THEN "True" ELSE "False"

\* the test of the list comprehension
IsRecent(name) == is_recent_post(name, RecentHours) = "True"

\* the list comprehension raises what is_recent_post raises
FilterRaises(entries) ==
    \E i \in 1..Len(entries) : is_recent_post(entries[i], RecentHours) = "TypeError"

\* recent_posts: the recent entries, or the latest entry when none is recent
RecentPosts(entries) ==
    LET recent_posts == SelectSeq(entries, IsRecent)
    IN  IF recent_posts = <<>> THEN <<entries[1]>> ELSE recent_posts

\* content = post.get('summary', post.get('description', ''))
Content(post) == Get(post.summary, Get(post.description, <<>>))

\* feed.entries: up to n posts of the pool, each at most once
Feeds(n) ==
    {entries \in UNION {[1..k -> PostPool] : k \in 0..n} :
        \A i, j \in 1..Len(entries) : entries[i] = entries[j] => i = j}

MainInit ==
    /\ mEntries \in Feeds(MaxFeed)
    /\ mFeed = <<>>
    /\ mIndex = 0
    /\ mPc = "fetched"
    /\ mItems = <<>>
    /\ mMessage = <<>>
    /\ mTestOk = "none"
    /\ mCalls = NoCalls
    /\ mSend = NoSend
    /\ mLog = <<>>
    /\ mProcessed = <<>>
    /\ mReturned = "none"

\* feed.entries is empty: main sends its message about that and returns
MainNoEntries ==
    /\ mPc = "fetched"
    /\ mEntries = <<>>
    /\ mSend' = StartSend(NoPostsMessage, "MarkdownV2", "empty")
    /\ mReturned' = "none"
    /\ mPc' = "send"
    /\ UNCHANGED <<mEntries, mFeed, mIndex, mItems, mMessage, mTestOk, mCalls, mLog, mProcessed, sVars, pVars, xVars, eVars>>

\* recent_posts is made and the loop starts with its first post
MainFilter ==
    /\ mPc = "fetched"
    /\ mEntries # <<>>
    /\ ~FilterRaises(mEntries)
    /\ mFeed' = RecentPosts(mEntries)
    /\ mIndex' = 1
    /\ mPc' = "extract"
    /\ UNCHANGED <<mEntries, mItems, mMessage, mTestOk, mCalls, mSend, mLog, mProcessed, mReturned, sVars, pVars, xVars, eVars>>

\* is_recent_post raises: the exception leaves the try block of main
MainFilterRaises ==
    /\ mPc = "fetched"
    /\ mEntries # <<>>
    /\ FilterRaises(mEntries)
    /\ mPc' = "fatal"
    /\ UNCHANGED <<mEntries, mFeed, mIndex, mItems, mMessage, mTestOk, mCalls, mSend, mLog, mProcessed, mReturned, sVars, pVars, xVars, eVars>>

\* the outer handler of main sends its error notification
MainFatal ==
    /\ mPc = "fatal"
    /\ mSend' = StartSend(FatalMessage(TypeErrorMessage), "MarkdownV2", "fatal")
    /\ mReturned' = "none"
    /\ mPc' = "send"
    /\ UNCHANGED <<mEntries, mFeed, mIndex, mItems, mMessage, mTestOk, mCalls, mLog, mProcessed, sVars, pVars, xVars, eVars>>

\* the loop body starts: news_items = extract_news_items(content, max_items=5)
MainExtract ==
    /\ mPc = "extract"
    /\ mProcessed' = Append(mProcessed, mFeed[mIndex])
    /\ mItems' = extract_news_items(Content(Post(mFeed[mIndex])), MainMaxItems)
    /\ mCalls' = [mCalls EXCEPT !.extract = @ + 1]
    /\ mPc' = "format"
    /\ UNCHANGED <<mEntries, mFeed, mIndex, mMessage, mTestOk, mSend, mLog, mReturned, sVars, pVars, xVars, eVars>>

\* message = format_telegram_message(post, news_items)
MainFormat ==
    /\ mPc = "format"
    /\ LET result == format_telegram_message(Post(mFeed[mIndex]), mItems)
       IN  /\ mMessage' = result.message
           /\ mPc' = IF result.raised THEN "except" ELSE "test"
    /\ mCalls' = [mCalls EXCEPT !.format = @ + 1]
    /\ UNCHANGED <<mEntries, mFeed, mIndex, mItems, mTestOk, mSend, mLog, mProcessed, mReturned, sVars, pVars, xVars, eVars>>

\* test_message_format(message) is False: the message is converted and sent
\* with parse_mode 'HTML'
MainTestFails ==
    /\ mPc = "test"
    /\ ~test_message_format(mMessage)
    /\ mTestOk' = "failed"
    /\ mMessage' = HtmlOf(mMessage)
    /\ mSend' = StartSend(mMessage', "HTML", "html")
    /\ mReturned' = "none"
    /\ mPc' = "send"
    /\ UNCHANGED <<mEntries, mFeed, mIndex, mItems, mCalls, mLog, mProcessed, sVars, pVars, xVars, eVars>>

\* test_message_format(message) is True: send_telegram_message(message)
MainTestPasses ==
    /\ mPc = "test"
    /\ test_message_format(mMessage)
    /\ mTestOk' = "passed"
    /\ mSend' = StartSend(mMessage, "MarkdownV2", "markdown")
    /\ mReturned' = "none"
    /\ mPc' = "send"
    /\ UNCHANGED <<mEntries, mFeed, mIndex, mItems, mMessage, mCalls, mLog, mProcessed, sVars, pVars, xVars, eVars>>

\* the log after the POST of one attempt; ok tells whether the status is 200,
\* parse_error whether the response has "can't parse" in its text
Posted(ok, parse_error) ==
    Append(mLog, [caller |-> mSend.caller, parse_mode |-> mSend.data_mode,
                  ok |-> ok, parse_error |-> parse_error])

\* the parse_mode of the attempt after a parse error: None, unless the
\* parse_mode of the call is 'HTML'
ModeAfterParseError(send) ==
    IF send.parse_mode # "HTML" THEN "None" ELSE send.data_mode

\* one attempt more than max_retries
AttemptsLeftOneMore(send) == send.attempt <= max_retries

\* for attempt in range(max_retries): the loop has an attempt to make
AttemptsLeft(send) == send.attempt < max_retries

\* the POST is answered with status 200: return True
SendOk ==
    /\ mPc = "send"
    /\ AttemptsLeft(mSend)
    /\ mLog' = Posted(TRUE, FALSE)
    /\ mSend' = NoSend
    /\ mReturned' = "True"
    /\ mPc' = AfterSendTrue(mSend.caller)
    /\ UNCHANGED <<mEntries, mFeed, mIndex, mItems, mMessage, mTestOk, mCalls, mProcessed, sVars, pVars, xVars, eVars>>

\* the POST is answered with another status and "can't parse" in the text:
\* unless parse_mode is 'HTML', the next attempt has parse_mode None
SendParseError ==
    /\ mPc = "send"
    /\ AttemptsLeft(mSend)
    /\ mLog' = Posted(FALSE, TRUE)
    /\ mSend' = [mSend EXCEPT !.attempt = @ + 1, !.data_mode = ModeAfterParseError(mSend)]
    /\ UNCHANGED <<mEntries, mFeed, mIndex, mPc, mItems, mMessage, mTestOk, mCalls, mProcessed, mReturned, sVars, pVars, xVars, eVars>>

\* the POST is answered with another status and another text, or raises a
\* RequestException: the next attempt repeats it
SendError ==
    /\ mPc = "send"
    /\ AttemptsLeft(mSend)
    /\ \E failure \in {"status", "RequestException"} :
          /\ mLog' = Posted(FALSE, FALSE)
          /\ mSend' = [mSend EXCEPT !.attempt = @ + 1]
    /\ UNCHANGED <<mEntries, mFeed, mIndex, mPc, mItems, mMessage, mTestOk, mCalls, mProcessed, mReturned, sVars, pVars, xVars, eVars>>

\* the loop of send_telegram_message ends: return False
SendGiveUp ==
    /\ mPc = "send"
    /\ ~AttemptsLeft(mSend)
    /\ mSend' = NoSend
    /\ mReturned' = "False"
    /\ mPc' = AfterSendFalse(mSend.caller)
    /\ UNCHANGED <<mEntries, mFeed, mIndex, mItems, mMessage, mTestOk, mCalls, mLog, mProcessed, sVars, pVars, xVars, eVars>>

\* the last resort: send_telegram_message(clean_html(message), parse_mode=None)
MainPlain ==
    /\ mPc = "plain"
    /\ mSend' = StartSend(clean_html(mMessage), "None", "plain")
    /\ mReturned' = "none"
    /\ mPc' = "send"
    /\ UNCHANGED <<mEntries, mFeed, mIndex, mItems, mMessage, mTestOk, mCalls, mLog, mProcessed, sVars, pVars, xVars, eVars>>

\* the handler of the loop body sends the error notification
MainExcept ==
    /\ mPc = "except"
    /\ mSend' = StartSend(ErrorMessage(RecursionMessage), "MarkdownV2", "error")
    /\ mCalls' = [mCalls EXCEPT !.error = @ + 1]
    /\ mReturned' = "none"
    /\ mPc' = "send"
    /\ UNCHANGED <<mEntries, mFeed, mIndex, mItems, mMessage, mTestOk, mLog, mProcessed, sVars, pVars, xVars, eVars>>

\* the loop goes on with the next of the first PostLimit posts; the values
\* of the body of the last post are dead
MainNextPost ==
    /\ mPc = "next"
    /\ mIndex < Min({Len(mFeed), PostLimit})
    /\ mIndex' = mIndex + 1
    /\ mPc' = "extract"
    /\ mItems' = <<>>
    /\ mMessage' = <<>>
    /\ mTestOk' = "none"
    /\ mCalls' = NoCalls
    /\ mLog' = <<>>
    /\ mReturned' = "none"
    /\ UNCHANGED <<mEntries, mFeed, mSend, mProcessed, sVars, pVars, xVars, eVars>>

\* the loop is over: main returns
MainDone ==
    /\ mPc = "next"
    /\ mIndex >= Min({Len(mFeed), PostLimit})
    /\ mPc' = "done"
    /\ UNCHANGED <<mEntries, mFeed, mIndex, mItems, mMessage, mTestOk, mCalls, mSend, mLog, mProcessed, mReturned, sVars, pVars, xVars, eVars>>

\* main on every feed of the pool, with every response of the delivery
\* surface; main is one sequential process, which takes its next step
MainSpecInit == MainInit /\ PackerIdle /\ SummaryIdle /\ ExtractIdle /\ EscapeIdle
MainNext ==
    \/ MainNoEntries \/ MainFilter \/ MainFilterRaises \/ MainFatal
    \/ MainExtract \/ MainFormat \/ MainTestFails \/ MainTestPasses
    \/ SendOk \/ SendParseError \/ SendError \/ SendGiveUp
    \/ MainPlain \/ MainExcept \/ MainNextPost \/ MainDone
SpecMain == MainSpecInit /\ [][MainNext]_vars

\* how far a message of a call is longer than the limit
MaxOverflow == 2

\* the lengths of the messages of a call: short ones, and the ones about the
\* limit
CallLengths ==
    {0, 1} \cup {TELEGRAM_MAX_LENGTH + d : d \in (0 - 1)..MaxOverflow}

\* a message of n characters, the last TruncationReserve + MaxOverflow of
\* which differ from the ones before
CallMessage(n) ==
    LET tail == Min({n, TruncationReserve + MaxOverflow})
    IN  Rep("m", n - tail) \o Rep("z", tail)

\* the values of parse_mode
ParseModes == {"MarkdownV2", "HTML", "None"}

\* one call send_telegram_message(message, parse_mode), with its arguments
SendInit ==
    /\ \E n \in CallLengths : mMessage = CallMessage(n)
    /\ \E parse_mode \in ParseModes : mSend = [NoSend EXCEPT !.parse_mode = parse_mode]
    /\ mPc = "call"
    /\ mEntries = <<>> /\ mFeed = <<>> /\ mIndex = 0 /\ mItems = <<>>
    /\ mTestOk = "none" /\ mCalls = NoCalls /\ mLog = <<>>
    /\ mProcessed = <<>> /\ mReturned = "none"

\* the call cuts the message to the limit and makes data
SendCall ==
    /\ mPc = "call"
    /\ mSend' = StartSend(mMessage, mSend.parse_mode, "call")
    /\ mPc' = "send"
    /\ UNCHANGED <<mEntries, mFeed, mIndex, mItems, mMessage, mTestOk, mCalls, mLog, mProcessed, mReturned, sVars, pVars, xVars, eVars>>

\* send_telegram_message on messages about the limit, with every parse_mode
\* and every response of the delivery surface
SendSpecInit == SendInit /\ PackerIdle /\ SummaryIdle /\ ExtractIdle /\ EscapeIdle
SendNext == SendCall \/ SendOk \/ SendParseError \/ SendError \/ SendGiveUp
SpecSend == SendSpecInit /\ [][SendNext]_vars

\* the call runs on: it is one sequential function, which takes its next step
SpecSendFair == SpecSend /\ WF_vars(SendNext)

\* every statement of main but its return has a step to take, which changes
\* the state: this is ENABLED <<MainNext>>_vars
MainEnabled == mPc # "done"

\* main under weak fairness of its steps, WF_vars(MainNext), with the
\* enabling condition written out: the process does not stop before its
\* return
SpecMainFair == SpecMain /\ ([]<>(~MainEnabled) \/ []<><<MainNext>>_vars)

----------------------------------------------------------------------------
(* The claims about format_telegram_message.                               *)

\* the message format_telegram_message assembles from the first k items of
\* the list the outermost call was given
Packed(k) == BuildMessage(Entry(pEntry), Items(Take(pInput, k)))

\* the item numbers n for which the message has a line that starts "n\. "
NumberedLines(message) ==
    {n \in 1..9 : \E p \in 1..Len(message) :
        /\ message[p] = "\n"
        /\ OccursAt(message, p + 1, IntToStr(n) \o <<"\\", ".", " ">>)}

\* C1: format_telegram_message terminates with a message for every entry and
\* every item list; a message that stays too long never ends in unbounded
\* recursion or an exception.
C1_PackerTerminates == pPc # "RecursionError"

\* C2: every message format_telegram_message returns is at most
\* TELEGRAM_MAX_LENGTH - 100 characters long, and so at most TELEGRAM_MAX_LENGTH.
C2_LengthBound ==
    pPc = "returned" =>
        /\ Len(pMessage) <= TELEGRAM_MAX_LENGTH - SafetyMargin
        /\ Len(pMessage) <= TELEGRAM_MAX_LENGTH

\* a message is returned after the first one built was found too long
C2_Witness == pPc = "returned" /\ pDepth = 1 /\ Len(pMessage) > 0

\* C3: given at least 5 items whose 5-item message is too long and whose
\* 3-item message fits, the returned message holds exactly the first 3 items,
\* numbered 1 to 3.
C3_ExactlyThree ==
    (/\ pPc = "returned"
     /\ Len(pInput) >= 5
     /\ TooLong(Packed(5))
     /\ ~TooLong(Packed(3)))
    => /\ pRendered = 3
       /\ pMessage = Packed(3)
       /\ NumberedLines(pMessage) = 1..3

\* five items with long URLs were handed over and three of them came back
C3_Witness ==
    /\ pPc = "returned"
    /\ pInput = <<"long", "long", "long", "long", "long">>
    /\ pDepth = 1
    /\ NumberedLines(pMessage) = 1..3

\* C4 as stated: the item count goes down one step at a time, so the returned
\* message holds the largest number k <= 5 of leading items whose message fits.
C4_LargestFitting ==
    pPc = "returned" =>
        \A k \in (pRendered + 1)..Min({ShownItems, Len(pInput)}) : TooLong(Packed(k))

\* C4 as the code has it: the returned message holds the first 5 items when
\* their message fits, and otherwise the first 3, in one step.
C4_FiveOrThree ==
    pPc = "returned" =>
        /\ pRendered = IF TooLong(Packed(ShownItems))
                       THEN Min({RetryItems, Len(pInput)})
                       ELSE Min({ShownItems, Len(pInput)})
        /\ pMessage = Packed(pRendered)

\* four items were too long together and the first three came back
C4_Witness ==
    /\ pPc = "returned"
    /\ Len(pInput) = 4
    /\ pDepth = 1
    /\ pRendered = 3

\* the header of the item list
ItemHeader == <<"T","o","p"," ","A","I"," ","N","e","w","s">>

\* C15: with no items format_telegram_message returns, for every entry and
\* without raising, a non-empty message that does not carry the item header.
C15_FallbackMessage ==
    (pInput = <<>> /\ pPc \in {"returned", "RecursionError"})
        => /\ pPc = "returned"
           /\ Len(pMessage) > 0
           /\ ~Contains(pMessage, ItemHeader)

\* the MarkdownV2 special characters
Specials == {escape_chars[k] : k \in 1..Len(escape_chars)}

\* every special character of s has a backslash right before it
FullyEscaped(s) ==
    \A q \in 1..Len(s) : s[q] \in Specials => (q > 1 /\ s[q - 1] = "\\")

\* the lines of a message
Lines(message) ==
    LET n == Len(message)
        breaks == {q \in 1..n : message[q] = "\n"} \cup {0, n + 1}
    IN  {SubSeq(message, a + 1, Min({b \in breaks : b > a}) - 1) : a \in breaks \ {n + 1}}

\* the line between a prefix and a suffix of the template
Between(line, prefix, suffix) ==
    SubSeq(line, Len(prefix) + 1, Len(line) - Len(suffix))

\* line is prefix, something, suffix
Wraps(line, prefix, suffix) ==
    /\ Len(line) >= Len(prefix) + Len(suffix)
    /\ OccursAt(line, 1, prefix)
    /\ OccursAt(line, Len(line) - Len(suffix) + 1, suffix)

TitleOpen == <<"ROBOT", " ", "*">>
HeaderLine == <<"NEWSPAPER", " ", "*">> \o ItemHeader \o <<":", "*">>
LinkOpen == <<" ", " ", " ", "LINK", " ", "[", "L", "i", "n", "k", "]", "(">>
FooterOpen == <<"PAGE"," ","[","R","e","a","d"," ","f","u","l","l"," ","p","o","s","t","]","(">>

\* the length of the item number and its escaped dot at the start of line,
\* 0 when the line is not an item line
NumberPrefix(line) ==
    LET d == Min({j \in 1..Len(line) : line[j] \notin DigitSet} \cup {Len(line) + 1})
    IN  IF d > 1 /\ OccursAt(line, d, <<"\\", ".", " ">>) THEN d + 2 ELSE 0

\* what a line of the message holds besides the template's own markup
UserText(line) ==
    IF Wraps(line, TitleOpen, <<"*">>) THEN Between(line, TitleOpen, <<"*">>)
    ELSE IF line = HeaderLine THEN <<>>
    ELSE IF Wraps(line, LinkOpen, <<")">>) THEN Between(line, LinkOpen, <<")">>)
    ELSE IF Wraps(line, FooterOpen, <<")">>) THEN Between(line, FooterOpen, <<")">>)
    ELSE Drop(line, NumberPrefix(line))

\* C16: in every returned message every special character that comes from
\* the title, an item summary, the fallback summary, an item URL or the link
\* has a backslash right before it; only the template's markup is unescaped.
C16_UserTextEscaped ==
    pPc = "returned" =>
        \A line \in Lines(pMessage) : FullyEscaped(UserText(line))

\* a returned message with an item whose summary and URL hold special
\* characters, and with the footer link
C16_Witness ==
    /\ pPc = "returned"
    /\ pEntry = "plain"
    /\ \E i \in 1..pRendered : pItems[i] = "huge"
    /\ Contains(pMessage, <<"\\", "(", "b", "e", "t", "a", "\\", ")">>)
    /\ Contains(pMessage, <<"s", "m", "o", "l", "\\", ".", "a", "i">>)

----------------------------------------------------------------------------
(* The claims about create_punchy_summary.                                 *)

\* the positions of the sentence terminators of the text
Terminators == {p \in 1..Len(sText) : sText[p] \in {".", "!", "?"}}

\* the number of characters before the first sentence terminator
CutPosition == Min(Terminators) - 1

\* the summary is the text before its first sentence terminator, stripped
CutAtFirstTerminator ==
    Terminators # {} /\ sResult = Strip(SubSeq(sText, 1, CutPosition))

\* the summary ends with the ellipsis marker that only the loop over the
\* words appends
EndsWithEllipsis ==
    Len(sResult) >= 3 /\ SubSeq(sResult, Len(sResult) - 2, Len(sResult)) = Ellipsis

\* the first token of the text is longer than max_length
FirstTokenOverBudget ==
    SplitWords(sText) # <<>> /\ Len(SplitWords(sText)[1]) > sMaxLen

\* C5: a text of at most max_length characters is returned unchanged, also
\* when it matches one of the extraction patterns.
C5_ShortInputUnchanged ==
    (sPc = "returned" /\ Len(sText) <= sMaxLen) => sResult = sText

\* C6: the summary has at most max_length characters for every text and every
\* max_length, unless the first token of the text alone is longer than that.
C6_SummaryLengthBound ==
    sPc = "returned" => (Len(sResult) <= sMaxLen \/ FirstTokenOverBudget)

\* C7 as stated: for a text longer than max_length with no fitting pattern,
\* the summary is cut at the first sentence terminator only if the cut lies
\* within the first max_length characters and beyond half of max_length.
C7_MinimumFraction ==
    (/\ sPc = "returned"
     /\ Len(sText) > sMaxLen
     /\ NoPatternFits
     /\ CutAtFirstTerminator)
    => (CutPosition <= sMaxLen /\ 2 * CutPosition >= sMaxLen)

\* C7 as the code has it: for a text longer than max_length with no fitting
\* pattern, the summary is cut at the first sentence terminator exactly when
\* the cut lies within the first max_length characters, however early it is;
\* otherwise the loop over the words produces the summary.
C7_CutWithinLength ==
    (/\ sPc = "returned"
     /\ Len(sText) > sMaxLen
     /\ NoPatternFits)
    => IF Terminators # {} /\ CutPosition <= sMaxLen
       THEN CutAtFirstTerminator
       ELSE ~CutAtFirstTerminator /\ EndsWithEllipsis

\* a summary cut at a sentence terminator in the first half of max_length
C7_Witness ==
    /\ sPc = "returned"
    /\ Len(sText) > sMaxLen
    /\ NoPatternFits
    /\ CutAtFirstTerminator
    /\ 0 < CutPosition
    /\ 2 * CutPosition < sMaxLen

\* the words of the text: its maximal runs of letters and digits
WordsOf(text) ==
    LET wordy(i) == text[i] \in LetterSet \cup DigitSet
    IN  {SubSeq(text, i, j) : <<i, j>> \in
            {<<i, j>> \in (1..Len(text)) \X (1..Len(text)) :
                /\ i <= j
                /\ \A k \in i..j : wordy(k)
                /\ (i = 1 \/ ~wordy(i - 1))
                /\ (j = Len(text) \/ ~wordy(j + 1))}}

\* C27: for a text with at least one word the summary is not empty, is not
\* the bare ellipsis and contains a word of the text.
C27_KeepsAWord ==
    (sPc = "returned" /\ WordsOf(sText) # {}) =>
        /\ sResult # <<>>
        /\ sResult # Ellipsis
        /\ \E word \in WordsOf(sText) : Contains(sResult, word)

----------------------------------------------------------------------------
(* The claims about extract_news_items.                                    *)

\* the lengths of the prefix that makes the deduplication key
KeyLengths == 30..50

\* the deduplication key of a text: its case-folded prefix of k characters
DedupKey(text, k) == Lower(Take(text, k))

\* the content of three numbered items, the first two of which differ in
\* trailing whitespace only
NumberedBlob == PieceOne \o PieceTwo \o PieceThree

\* the place candidate k of xAll takes when xAll is sorted by score descending
\* with a stable sort
Rank(k) ==
    1 + Cardinality({j \in 1..Len(xAll) :
                        \/ xAll[j].score > xAll[k].score
                        \/ xAll[j].score = xAll[k].score /\ j < k})

\* C8: no two items of a returned list have the same deduplication key, and
\* so no two have the same text.
C8_NoDuplicateKeys ==
    xPc = "returned" =>
        \E n \in KeyLengths :
            \A i \in 1..Len(xResult) : \A j \in (i + 1)..Len(xResult) :
                DedupKey(xResult[i].text, n) # DedupKey(xResult[j].text, n)

\* C9: from three numbered items, each qualifying, two of which are identical
\* apart from trailing whitespace, exactly two items are returned.
C9_TwoOfThree ==
    (xPc = "returned" /\ xContent = NumberedBlob /\ xMaxItems >= 3)
        => Len(xResult) = 2

\* C10: the returned list is the first min(max_items, n) of the n qualifying
\* candidates sorted by score descending with a stable sort.
C10_StableTopItems ==
    xPc = "returned" =>
        /\ Len(xResult) = Min({xMaxItems, Len(xAll)})
        /\ \A k \in 1..Len(xAll) :
              Rank(k) <= Len(xResult) => xResult[Rank(k)] = xAll[k]
        /\ \A i \in 1..Len(xResult) : \A j \in (i + 1)..Len(xResult) :
              xResult[i].score >= xResult[j].score

\* more candidates than max_items, found in another order than that of their
\* scores, two of them with the same score
C10_Witness ==
    /\ xPc = "returned"
    /\ 0 < xMaxItems
    /\ xMaxItems < Len(xAll)
    /\ \E i \in 1..Len(xAll) : \E j \in (i + 1)..Len(xAll) :
          xAll[i].score < xAll[j].score
    /\ \E i \in 1..Len(xResult) : \E j \in (i + 1)..Len(xResult) :
          xResult[i].score = xResult[j].score

\* the lines the loop of extract_news_items goes over, stripped
StrippedLines ==
    LET lines == SplitLines(clean_html(xContent))
    IN  {Strip(lines[k]) : k \in 1..Len(lines)}

\* C11: every returned item has a score of at least 2; a candidate with a
\* lower score is never emitted.
C11_ScoreAtLeastThreshold ==
    xPc = "returned" =>
        /\ \A i \in 1..Len(xResult) : xResult[i].score >= 2
        /\ xResult # <<>> =>
              \A line \in StrippedLines :
                  (\E i \in 1..Len(xResult) : xResult[i].text = CleanLine(line))
                      => Score(line) >= 2

\* a line long enough but with a score below 2 was dropped and other lines
\* were returned
C11_Witness ==
    /\ xPc = "returned"
    /\ Len(xResult) > 0
    /\ \E line \in StrippedLines : Len(line) >= MinLineLength /\ Score(line) < 2

\* C12: two emitted items with equal text have equal score.
C12_ScoreFunctionOfText ==
    xPc = "returned" =>
        \A i \in 1..Len(xResult) : \A j \in 1..Len(xResult) :
            xResult[i].text = xResult[j].text => xResult[i].score = xResult[j].score

\* the minimum length of a candidate's text and the length below which a
\* text with no sentence terminator at its end is a fragment
MinTextLength == 20
FragmentThreshold == 60

\* the text ends in '.', '!' or '?'
EndsInTerminator(text) == Len(text) > 0 /\ text[Len(text)] \in {".", "!", "?"}

\* C13: every returned item has a text of at least 20 characters, also when
\* a leading bullet or number was removed from it.
C13_MinimumTextLength ==
    xPc = "returned" =>
        \A i \in 1..Len(xResult) : Len(xResult[i].text) >= MinTextLength

\* C14: no returned item has a text that does not end in '.', '!' or '?' and
\* is shorter than the fragment threshold.
C14_NoShortFragment ==
    xPc = "returned" =>
        \A i \in 1..Len(xResult) :
            EndsInTerminator(xResult[i].text) \/ Len(xResult[i].text) >= FragmentThreshold

----------------------------------------------------------------------------
(* The claims about escape_markdown_v2 and main.                           *)

\* text with one backslash put before each of its special characters
RECURSIVE WithBackslashes(_)
WithBackslashes(text) ==
    IF text = <<>> THEN <<>>
    ELSE (IF text[1] \in Specials THEN <<"\\", text[1]>> ELSE <<text[1]>>)
             \o WithBackslashes(Drop(text, 1))

\* C17: escape_markdown_v2 puts exactly one backslash before each special
\* character and changes nothing else, and removing the backslashes from the
\* escaped text gives the original text back.
C17_EscapeRoundTrip ==
    ePc = "stripped" =>
        /\ eEscaped = WithBackslashes(eText)
        /\ eStripped = eText

\* the number of POSTs that a call of send_telegram_message made for the
\* current post, by the place of the call in main
PostsBy(caller) == Cardinality({i \in 1..Len(mLog) : mLog[i].caller = caller})

\* the HTML send of the current post has returned False: all its POSTs are
\* made and none was answered with status 200
HtmlReturnedFalse ==
    /\ PostsBy("html") = 3
    /\ \A i \in 1..Len(mLog) : mLog[i].caller = "html" => ~mLog[i].ok

\* the tags of the HTML conversion
EmphasisTags == {<<"<","b",">">>, <<"<","/","b",">">>, <<"<","i",">">>, <<"<","/","i",">">>}

\* C18: a post whose message fails test_message_format is sent as HTML and,
\* only if that send returns False, once more as plain text with parse_mode
\* None and without the tags; the chain makes at most 3 POSTs as HTML and 3 as
\* plain text, whatever the responses are, and main goes on after it.
C18_FallbackChain ==
    /\ [](mTestOk = "failed" =>
            /\ PostsBy("html") <= 3
            /\ PostsBy("plain") <= 3
            /\ PostsBy("markdown") = 0
            /\ \A i \in 1..Len(mLog) :
                  /\ mLog[i].caller = "html" => mLog[i].parse_mode = "HTML"
                  /\ mLog[i].caller = "plain" =>
                        /\ mLog[i].parse_mode = "None"
                        /\ i > 3
            /\ PostsBy("plain") > 0 => HtmlReturnedFalse
            /\ (mPc = "send" /\ mSend.caller = "plain") =>
                  /\ mSend.data_mode = "None"
                  /\ \A tag \in EmphasisTags : ~Contains(mSend.text, tag)
            /\ mPc = "next" =>
                  /\ PostsBy("html") >= 1
                  /\ HtmlReturnedFalse => PostsBy("plain") >= 1)
    /\ ((mTestOk = "failed" /\ mPc \in {"send", "plain"}) ~> (mPc = "next"))

\* the whole chain is used: three POSTs as HTML, three as plain text
C18_Witness ==
    /\ mTestOk = "failed"
    /\ mPc = "next"
    /\ PostsBy("html") = 3
    /\ PostsBy("plain") = 3

\* C19: for each post main calls extract_news_items once and
\* format_telegram_message once, both before the first POST, and not again
\* whatever failures, changes of dialect and retries follow.
C19_ExtractedOnce ==
    /\ mCalls.extract <= 1
    /\ mCalls.format <= 1
    /\ mPc = "format" => (mCalls.extract = 1 /\ mCalls.format = 0)
    /\ (\/ mPc \in {"test", "except", "plain", "next"}
        \/ \E i \in 1..Len(mLog) : mLog[i].caller \in {"html", "plain", "markdown", "error"}
        \/ (mPc = "send" /\ mSend.caller \in {"html", "plain", "markdown", "error"}))
           => (mCalls.extract = 1 /\ mCalls.format = 1)

\* both sends of the fallback chain have failed on every attempt
C19_Witness ==
    /\ mPc = "next"
    /\ Len(mLog) = 6
    /\ mCalls.extract = 1
    /\ mCalls.format = 1

\* the number of places at which tag occurs in text
TagCount(text, tag) == Cardinality({i \in 1..Len(text) : OccursAt(text, i, tag)})

\* C20: the text sent with parse_mode 'HTML' has as many <b> as </b> and as
\* many <i> as </i>.
C20_PairedTags ==
    (mPc = "send" /\ mSend.parse_mode = "HTML") =>
        /\ TagCount(mSend.text, <<"<","b",">">>) = TagCount(mSend.text, <<"<","/","b",">">>)
        /\ TagCount(mSend.text, <<"<","i",">">>) = TagCount(mSend.text, <<"<","/","i",">">>)

\* an entry the feed filter is to keep: its date is missing, is no date, or
\* names an instant of the last hours hours
PublishedWithin(name, hours) ==
    \/ Published(name).form \in {"missing", "garbled"}
    \/ Published(name).age < hours

\* the entries of the feed that are to be kept
KeptEntries(entries) ==
    SelectSeq(entries, LAMBDA name : PublishedWithin(name, RecentHours))

\* C21: for a feed with entries main processes one or two posts: the first two
\* entries published within the last 25 hours or without a readable date, or
\* feed.entries[0] when there is none.
C21_RecentPosts ==
    (mPc = "done" /\ mEntries # <<>>) =>
        /\ Len(mProcessed) \in 1..PostLimit
        /\ mProcessed = IF KeptEntries(mEntries) = <<>>
                        THEN <<mEntries[1]>>
                        ELSE Take(KeptEntries(mEntries), PostLimit)

\* C22: the text of every POST of a call has at most TELEGRAM_MAX_LENGTH
\* characters: a longer message is sent as its first TELEGRAM_MAX_LENGTH - 20
\* characters and the truncation marker, another message unchanged.
C22_TextWithinLimit ==
    (mPc = "send" /\ mSend.caller = "call") =>
        /\ Len(mSend.text) <= TELEGRAM_MAX_LENGTH
        /\ Len(mMessage) > TELEGRAM_MAX_LENGTH =>
              mSend.text = SubSeq(mMessage, 1, TELEGRAM_MAX_LENGTH - 20) \o TruncationMarker
        /\ Len(mMessage) <= TELEGRAM_MAX_LENGTH => mSend.text = mMessage

\* a message longer than the limit is posted
C22_Witness ==
    /\ mPc = "send" /\ mSend.caller = "call"
    /\ Len(mMessage) > TELEGRAM_MAX_LENGTH
    /\ Len(mLog) > 0
    /\ Len(mSend.text) < Len(mMessage)

\* a POST of the log was answered with status 200
SomeOk == \E i \in 1..Len(mLog) : mLog[i].ok

\* C23: a call makes at most 3 POSTs, whatever the responses are, and none
\* after a POST answered with status 200; it returns True exactly when a POST
\* was answered with status 200, and False after 3 POSTs without one; and it
\* returns.
C23_AtMostThreePosts ==
    /\ [](mSend.caller = "call" \/ mPc = "returned" =>
            /\ Len(mLog) <= 3
            /\ \A i \in 1..Len(mLog) : mLog[i].ok => i = Len(mLog)
            /\ SomeOk => (mPc = "returned" /\ mReturned = "True")
            /\ mPc = "returned" =>
                  /\ mReturned \in {"True", "False"}
                  /\ mReturned = "True" <=> SomeOk
                  /\ mReturned = "False" => Len(mLog) = 3)
    /\ ((mPc = "call") ~> (mPc = "returned"))
    /\ ((Len(mLog) = 3 /\ ~SomeOk) ~> (mPc = "returned" /\ mReturned = "False"))

\* a call returns False after a parse error, a status and an exception
C23_Witness ==
    /\ mPc = "returned" /\ mReturned = "False"
    /\ Len(mLog) = 3
    /\ mLog[1].parse_error /\ ~mLog[2].parse_error

\* C24: in a call, a POST with a parse_mode other than 'HTML' that is answered
\* with a parse error is followed by a POST with parse_mode None, on whichever
\* attempt it is; and after a POST with parse_mode None every POST has it.
C24_PlainAfterParseError ==
    mPc = "returned" =>
        /\ \A i \in 1..Len(mLog) :
              (mLog[i].parse_error /\ mLog[i].parse_mode # "HTML") =>
                  \E j \in (i + 1)..Len(mLog) : mLog[j].parse_mode = "None"
        /\ \A i, j \in 1..Len(mLog) :
              (i < j /\ mLog[i].parse_mode = "None") => mLog[j].parse_mode = "None"

\* format_telegram_message raises for the post of the loop body
FormatRaises == format_telegram_message(Post(mFeed[mIndex]), mItems).raised

\* C25: an exception raised in the loop body of a post is handled in the loop:
\* the handler makes one error-notification send for the post, no post has
\* more than one and none has one without an exception; main returns,
\* whatever happens, and when it has gone through the loop every one of the
\* first PostLimit posts was processed, also the one after an exception.
C25_ErrorIsolation ==
    /\ [](mCalls.error <= 1)
    /\ [](mPc = "except" => (mCalls.error = 0 /\ FormatRaises))
    /\ [](mCalls.error = 1 => (mTestOk = "none" /\ PostsBy("html") + PostsBy("markdown") = 0))
    /\ [][mCalls'.error > mCalls.error => mPc = "except"]_vars
    /\ [][mPc = "except" => (mCalls'.error = 1 /\ mSend'.caller = "error" /\ mPc' = "send")]_vars
    /\ [][(mPc = "send" /\ mSend.caller = "error") =>
             (mPc' \in {"send", "next"} /\ mCalls'.error = 1 /\ mIndex' = mIndex)]_vars
    /\ []((mPc = "done" /\ mFeed # <<>>) => mProcessed = Take(mFeed, PostLimit))
    /\ <>(mPc = "done")

\* the first of two posts raised, its error notification was posted three
\* times without success, and the loop is about to go on
C25_Witness ==
    /\ mPc = "next"
    /\ mIndex = 1
    /\ Len(mFeed) > 1
    /\ mCalls.error = 1
    /\ PostsBy("error") = 3

\* the entry of the loop body has a link
HasLink == Get(Post(mFeed[mIndex]).link, <<>>) # <<>>

\* the item has a URL
HasUrl(item) == item.url # None /\ item.url # <<>>

\* the entry has a link or an item of news_items has a URL
LinkOrUrl == HasLink \/ \E i \in 1..Len(mItems) : HasUrl(mItems[i])

\* the entry has a link or an item that the Markdown message shows has a URL
LinkOrShownUrl ==
    HasLink \/ \E i \in NumberedLines(mMessage) : i <= Len(mItems) /\ HasUrl(mItems[i])

\* C26 as stated: a message built for an entry with a link or for items one
\* of which has a URL fails test_message_format; main sends with parse_mode
\* MarkdownV2 only without a link and without a URL, and takes the HTML
\* fallback otherwise.
C26_LinkedRejected ==
    /\ (mPc = "test" /\ LinkOrUrl) => ~test_message_format(mMessage)
    /\ (mPc = "send" /\ mSend.caller = "markdown") => ~LinkOrUrl
    /\ (mTestOk # "none" /\ LinkOrUrl) => mTestOk = "failed"

\* C26 as the code has it: a message that shows a link, of the entry or of one
\* of the items it renders, fails test_message_format and is sent by the HTML
\* fallback; a message sent with parse_mode MarkdownV2 shows none.
C26_ShownLinkRejected ==
    /\ []((mPc = "test" /\ LinkOrShownUrl) => ~test_message_format(mMessage))
    /\ []((mPc = "send" /\ mSend.caller = "markdown") => ~LinkOrShownUrl)
    /\ [][(mPc = "test" /\ LinkOrShownUrl) =>
             (mTestOk' = "failed" /\ mSend'.caller = "html" /\ mSend'.parse_mode = "HTML")]_vars

\* a message of an entry without a link is sent as HTML with the link of its
\* item
C26_Witness ==
    /\ mPc = "send" /\ mSend.caller = "html"
    /\ ~HasLink
    /\ \E i \in 1..Len(mItems) : HasUrl(mItems[i])
    /\ Contains(mSend.text, <<"[","L","i","n","k","]","(">>)

====
